---- MODULE Spec2Model ----
(***************************************************************************)
(* State-machine model of the advection2D class (src/advection2D.cc): the  *)
(* constructor, setup_system, assemble_system, set_IC, set_boundary_ids,   *)
(* update, print_matrices and output, on the globally refined unit square. *)
(*                                                                         *)
(* Floating-point values are modelled by integers.  Every value the code   *)
(* stores in a solution vector is 0.0 (Vector::reinit zero-fills and the   *)
(* initial condition of src/IC.cc is the constant 0).                      *)
(***************************************************************************)
EXTENDS Integers, Sequences, FiniteSets, TLC

(***************************************************************************)
(* Bounds of the model.                                                    *)
(***************************************************************************)
\* polynomial orders the constructor is called with: 1..MaxOrder
MaxOrder == 2
\* number of global refinements of the unit square (the code uses 5)
RefineLevels == 1
\* time steps handed to update: 1..MaxTimeStep
MaxTimeStep == 1

(***************************************************************************)
(* Program constants.                                                      *)
(***************************************************************************)
\* GeometryInfo<2>::faces_per_cell
faces_per_cell == 4
\* index() of the past-the-end iterator that neighbor() returns at a boundary
invalid_index == -1
\* deal.II's default boundary id of a boundary face
default_boundary_id == 0

Faces == 0 .. (faces_per_cell - 1)

VARIABLES
    order,               \* fe.degree, the constructor's argument
    face_first_dof,      \* face id -> first cell-local dof on that face
    face_dof_increment,  \* face id -> cell-local dof stride on that face
    wind,                \* the advecting wind <<vx, vy>> (constant field)
    n_cells,             \* triang.n_active_cells(); 0 before setup_system
    g_solution,          \* global solution, dof index -> value
    gold_solution,       \* global old solution, dof index -> value
    boundary_id,         \* <<cell, face>> of a boundary face -> boundary id
    stiff_mats,          \* [size, capacity, mem: slot -> matrix stored there]
    lift_mats,           \* [size, capacity, mem: <<slot, face>> -> matrix]
    l_rhs,               \* [size, capacity]
    crashed,             \* the process was terminated (assertion or fault)
    last_op,             \* name of the last member function called
    repeat,              \* assemble_system was called twice in a row
    upd                  \* what the last call of update did

vars == <<order, face_first_dof, face_dof_increment, wind, n_cells, g_solution,
          gold_solution, boundary_id, stiff_mats, lift_mats, l_rhs, crashed,
          last_op, repeat, upd>>

(***************************************************************************)
(* Mesh: GridGenerator::hyper_cube followed by refine_global(levels).      *)
(* Every refinement replaces cell c by its children 4c..4c+3, child d in   *)
(* column d % 2 and row d \div 2 of the parent, so that the index of an    *)
(* active cell is the Morton code of its position.                         *)
(***************************************************************************)
RECURSIVE Pow(_, _)
Pow(b, e) == IF e = 0 THEN 1 ELSE b * Pow(b, e - 1)

CellsPerDirection == Pow(2, RefineLevels)
n_active_cells == CellsPerDirection * CellsPerDirection

RECURSIVE CellX(_, _)
CellX(c, lev) == IF lev = 0 THEN 0 ELSE 2 * CellX(c \div 4, lev - 1) + ((c % 4) % 2)

RECURSIVE CellY(_, _)
CellY(c, lev) == IF lev = 0 THEN 0 ELSE 2 * CellY(c \div 4, lev - 1) + ((c % 4) \div 2)

Cells == 0 .. (n_cells - 1)

\* the index of the cell in column x and row y
RECURSIVE CellAt(_, _, _)
CellAt(x, y, lev) ==
    IF lev = 0 THEN 0
    ELSE 4 * CellAt(x \div 2, y \div 2, lev - 1) + (x % 2) + 2 * (y % 2)

\* cell->neighbor(face_id)->index() for every cell and face of the mesh:
\* faces 0,1 are the x-min and x-max edges, faces 2,3 the y-min and y-max
\* edges; invalid_index at a boundary
neighbor_table ==
    [cf \in (0 .. (n_active_cells - 1)) \X Faces |->
        LET x == CellX(cf[1], RefineLevels)
            y == CellY(cf[1], RefineLevels)
            nx == IF cf[2] = 0 THEN x - 1 ELSE IF cf[2] = 1 THEN x + 1 ELSE x
            ny == IF cf[2] = 2 THEN y - 1 ELSE IF cf[2] = 3 THEN y + 1 ELSE y
        IN  IF nx < 0 \/ nx >= CellsPerDirection \/ ny < 0 \/ ny >= CellsPerDirection
            THEN invalid_index
            ELSE CellAt(nx, ny, RefineLevels)]

\* cell->neighbor(face_id)->index()
NeighborIndex(c, f) == neighbor_table[<<c, f>>]

\* cell->face(face_id)->at_boundary()
at_boundary(c, f) == NeighborIndex(c, f) = invalid_index

\* cell->neighbor_of_neighbor(face_id) on an interior face of the uniform mesh
neighbor_of_neighbor(f) == IF f = 0 THEN 1 ELSE IF f = 1 THEN 0 ELSE IF f = 2 THEN 3 ELSE 2

\* cell->face(face_id)->center(), in units of half a cell width
face_center(c, f) ==
    LET x == CellX(c, RefineLevels)
        y == CellY(c, RefineLevels)
    IN  IF f = 0 THEN <<2 * x, 2 * y + 1>>
        ELSE IF f = 1 THEN <<2 * x + 2, 2 * y + 1>>
        ELSE IF f = 2 THEN <<2 * x + 1, 2 * y>>
        ELSE <<2 * x + 1, 2 * y + 2>>

BoundaryFaces == {cf \in Cells \X Faces : at_boundary(cf[1], cf[2])}
InteriorFaces == {cf \in Cells \X Faces : ~at_boundary(cf[1], cf[2])}

(***************************************************************************)
(* Degrees of freedom: FE_DGQ of the given order, dofs numbered cell by    *)
(* cell.                                                                   *)
(***************************************************************************)
dofs_per_cell == (order + 1) * (order + 1)
dofs_per_face == order + 1
FaceDofs == 0 .. (dofs_per_face - 1)
n_dofs == n_cells * dofs_per_cell

\* cell->get_dof_indices(dof_ids): cell-local dof k -> global dof index
get_dof_indices(c) == [k \in 0 .. (dofs_per_cell - 1) |-> c * dofs_per_cell + k]

\* Vector<double>::reinit(n): n entries, all zero
reinit(n) == [d \in 0 .. (n - 1) |-> 0]

\* the mapping of the i-th dof of face f to a cell-local dof index
face_dof(f, i) == face_first_dof[f] + i * face_dof_increment[f]

\* the node of the cell's (order+1) x (order+1) lattice at which cell-local
\* dof k of FE_DGQ sits: the dofs run along x first, then along y
dof_position(k) == <<k % (order + 1), k \div (order + 1)>>

\* the same node in the lattice of the whole mesh
dof_point(c, k) ==
    <<CellX(c, RefineLevels) * order + dof_position(k)[1],
      CellY(c, RefineLevels) * order + dof_position(k)[2]>>

\* the k-th pair (cell, face_id) of a loop over the cells and, inside it,
\* over the faces, k = 1 .. 4 * n_cells
Visit(k) == <<(k - 1) \div faces_per_cell, (k - 1) % faces_per_cell>>

NumVisits == faces_per_cell * n_cells

(***************************************************************************)
(* Collaborators whose definitions are not part of the sources: the wind   *)
(* field (wind.h) and the boundary functions declared in BCs.h.            *)
(***************************************************************************)
\* the constant wind fields the model is run with
Winds == {<<1, 0>>, <<-1, 1>>}

\* wind . (outward unit normal of face f)
wind_normal(f) ==
    IF f = 0 THEN 0 - wind[1] ELSE IF f = 1 THEN wind[1]
    ELSE IF f = 2 THEN 0 - wind[2] ELSE wind[2]

\* boundary 0: phi prescribed as 1
b0(o_value) == 1
\* boundary 1: phi prescribed as 0
b1(o_value) == 0
\* boundary 2: zero gradient
b2(o_value) == o_value

(***************************************************************************)
(* advection2D::advection2D(order)                                         *)
(***************************************************************************)
\* face_first_dof with the first dof of face 1 one too far
face_first_dof_shifted(ord) ==
    [f \in Faces |-> IF f = 0 THEN 0 ELSE IF f = 1 THEN ord + 1
                     ELSE IF f = 2 THEN 0 ELSE (ord + 1) * ord]

face_first_dof_init(ord) ==
    [f \in Faces |-> IF f = 0 THEN 0 ELSE IF f = 1 THEN ord
                     ELSE IF f = 2 THEN 0 ELSE (ord + 1) * ord]

\* face_dof_increment with the strides of the x and the y faces exchanged
face_dof_increment_swapped(ord) ==
    [f \in Faces |-> IF f = 0 THEN 1 ELSE IF f = 1 THEN 1
                     ELSE IF f = 2 THEN ord + 1 ELSE ord + 1]

face_dof_increment_init(ord) ==
    [f \in Faces |-> IF f = 0 THEN ord + 1 ELSE IF f = 1 THEN ord + 1
                     ELSE IF f = 2 THEN 1 ELSE 1]

\* a std::vector right after default construction
empty_container == [size |-> 0, capacity |-> 0, mem |-> [x \in {} |-> {}]]

\* nothing recorded: update has not been called
no_update ==
    [time_step |-> 0, lookups |-> {}, items |-> <<>>, stores |-> {},
     contributions |-> {}]

Init ==
    /\ order \in 1 .. MaxOrder
    /\ face_first_dof = face_first_dof_init(order)
    /\ face_dof_increment = face_dof_increment_init(order)
    /\ wind \in Winds
    /\ n_cells = 0
    /\ g_solution = reinit(0)
    /\ gold_solution = reinit(0)
    /\ boundary_id = [cf \in {} |-> default_boundary_id]
    /\ stiff_mats = empty_container
    /\ lift_mats = empty_container
    /\ l_rhs = empty_container
    /\ crashed = FALSE
    /\ last_op = "advection2D"
    /\ repeat = FALSE
    /\ upd = no_update

(***************************************************************************)
(* advection2D::setup_system()                                             *)
(***************************************************************************)
\* std::vector::reserve(n): the capacity grows, the size does not change
reserve(v, n) == [v EXCEPT !.capacity = IF n > v.capacity THEN n ELSE v.capacity]

setup_system ==
    /\ ~crashed
    /\ n_cells = 0      \* hyper_cube requires an empty triangulation
    /\ n_cells' = n_active_cells
    /\ g_solution' = reinit(n_active_cells * dofs_per_cell)
    /\ gold_solution' = reinit(n_active_cells * dofs_per_cell)
    /\ boundary_id' =
         [cf \in {xf \in (0 .. (n_active_cells - 1)) \X Faces :
                    NeighborIndex(xf[1], xf[2]) = invalid_index}
            |-> default_boundary_id]
    /\ stiff_mats' = reserve(stiff_mats, n_active_cells)
    /\ lift_mats' = reserve(lift_mats, n_active_cells)
    \* the loop over l_rhs runs over size() = 0 elements
    /\ l_rhs' = reserve(l_rhs, n_active_cells)
    /\ last_op' = "setup_system"
    /\ repeat' = FALSE
    /\ UNCHANGED <<order, face_first_dof, face_dof_increment, wind, crashed, upd>>

(***************************************************************************)
(* advection2D::assemble_system()                                          *)
(*                                                                         *)
(* Matrices are modelled by what has been accumulated into them: a mass or *)
(* differentiation matrix by the set of cells whose quadrature was summed  *)
(* into it, a flux matrix by the set of its touched entries                *)
(* <<row, column, <<cell, face>>>>.                                        *)
(*                                                                         *)
(* stiff_mats[cell->index()] and lift_mats[cell->index()][face_id] are     *)
(* assigned through operator[] although the containers have size 0: every  *)
(* such assignment either faults or lands in the reserved storage.  An     *)
(* outcome is the first cell whose assignment faults, n_cells if none.     *)
(***************************************************************************)
AssembleOutcomes == 0 .. n_cells

\* l_mass = 0; l_diff = 0; then the sums over the quadrature points of the
\* cell; stiffness = l_mass_inv * l_diff
stiffness_of(c) == [mass |-> {c}, diff |-> {c}, wind |-> wind]

\* a flux matrix that is not cleared before the sums of a face
l_flux_kept(l_flux) == l_flux

\* l_flux = 0
l_flux_reset(l_flux) == {}

\* l_flux after the sums over the quadrature points of face f of cell c
face_flux(c, f, l_flux) ==
    l_flux_reset(l_flux)
        \cup {<<face_dof(f, i_face), face_dof(f, j_face), <<c, f>>>> :
                i_face \in FaceDofs, j_face \in FaceDofs}

\* l_flux after the k-th pair (cell, face_id) of the loops; l_flux is a
\* local of assemble_system that lives through all of them
RECURSIVE l_flux_after(_)
l_flux_after(k) ==
    IF k = 0 THEN {}
    ELSE face_flux(Visit(k)[1], Visit(k)[2], l_flux_after(k - 1))

\* lifting = l_mass_inv * l_flux
lifting_of(c, l_flux) == [mass |-> {c}, flux |-> l_flux]

\* the size of a container to which every matrix is appended
size_after_emplace(size, stored) == size + stored

\* the size of a container whose elements are assigned through operator[]
size_after(size, stored) == size

\* a build that empties the storage before it starts
assemble_start_cleared(mem) == [x \in {} |-> {}]

\* the storage a build starts from: what is there stays until overwritten
assemble_start(mem) == mem

\* the storage of stiff_mats after the cells 0 .. stored-1 were assigned
stiff_after(mem, stored) ==
    [s \in DOMAIN assemble_start(mem) \cup (0 .. (stored - 1)) |->
        IF s < stored THEN stiffness_of(s) ELSE assemble_start(mem)[s]]

\* the storage of lift_mats after the cells 0 .. stored-1 were assigned
lift_after(mem, stored) ==
    [sf \in DOMAIN assemble_start(mem) \cup ((0 .. (stored - 1)) \X Faces) |->
        IF sf[1] < stored
        THEN lifting_of(sf[1], l_flux_after(faces_per_cell * sf[1] + sf[2] + 1))
        ELSE assemble_start(mem)[sf]]

assemble_system ==
    /\ ~crashed
    /\ last_op' = "assemble_system"
    /\ repeat' = (last_op = "assemble_system")
    /\ \E fault_at \in AssembleOutcomes :
          /\ crashed' = (fault_at < n_cells)
          /\ stiff_mats' = [stiff_mats EXCEPT !.mem = stiff_after(@, fault_at),
                                               !.size = size_after(@, fault_at)]
          /\ lift_mats' = [lift_mats EXCEPT !.mem = lift_after(@, fault_at),
                                             !.size = size_after(@, fault_at)]
    /\ UNCHANGED <<order, face_first_dof, face_dof_increment, wind, n_cells,
                   g_solution, gold_solution, boundary_id, l_rhs, upd>>

(***************************************************************************)
(* advection2D::set_IC()                                                   *)
(***************************************************************************)
\* IC::value_list: the constant initial condition
IC_value == 0

set_IC ==
    /\ ~crashed
    /\ g_solution' = [d \in DOMAIN g_solution |-> IC_value]
    /\ last_op' = "set_IC"
    /\ repeat' = FALSE
    /\ UNCHANGED <<order, face_first_dof, face_dof_increment, wind, n_cells,
                   gold_solution, boundary_id, stiff_mats, lift_mats, l_rhs,
                   crashed, upd>>

(***************************************************************************)
(* advection2D::set_boundary_ids()                                         *)
(***************************************************************************)
\* the id a boundary face ends with: if / if / else on the face centre
boundary_id_of(c, f) ==
    LET fcenter == face_center(c, f)
        after_first == IF fcenter[1] = 0 THEN 0 ELSE boundary_id[<<c, f>>]
    IN  IF fcenter[2] = 0 THEN 1 ELSE 2

set_boundary_ids ==
    /\ ~crashed
    /\ boundary_id' = [cf \in DOMAIN boundary_id |-> boundary_id_of(cf[1], cf[2])]
    /\ last_op' = "set_boundary_ids"
    /\ repeat' = FALSE
    /\ UNCHANGED <<order, face_first_dof, face_dof_increment, wind, n_cells,
                   g_solution, gold_solution, stiff_mats, lift_mats, l_rhs,
                   crashed, upd>>

(***************************************************************************)
(* advection2D::update(time_step)                                          *)
(*                                                                         *)
(* The loops visit the pairs (cell, face_id) in the order of the active    *)
(* cells and of the faces.  Nothing tests at_boundary(): on a boundary     *)
(* face cell->neighbor(face_id) is the past-the-end iterator, and what     *)
(* dereferencing it does depends on the build:                             *)
(*   "abort"    the dereference is caught (assertion or fault) and the     *)
(*              process ends at the first boundary face visited;           *)
(*   "continue" index() yields invalid_index, the face is not skipped, and *)
(*              neighbor_of_neighbor yields some face id.                  *)
(***************************************************************************)
UpdateOutcomes ==
    {[mode |-> "abort", face |-> 0]} \cup {[mode |-> "continue", face |-> f] : f \in Faces}

RECURSIVE first_boundary_from(_)
first_boundary_from(k) ==
    IF at_boundary(Visit(k)[1], Visit(k)[2]) THEN k ELSE first_boundary_from(k + 1)

\* the first pair that is a boundary face (every cell row and column of the
\* square ends at the boundary, so there is one)
FirstBoundaryVisit == first_boundary_from(1)

\* the last pair whose neighbor is looked up
LastVisit(ub) ==
    IF n_cells = 0 THEN 0
    ELSE IF ub.mode = "abort" THEN FirstBoundaryVisit ELSE NumVisits

\* the last pair that reaches the test of the if statement's outcome
LastTested(ub) ==
    IF n_cells = 0 THEN 0
    ELSE IF ub.mode = "abort" THEN FirstBoundaryVisit - 1 ELSE NumVisits

\* if(cell->neighbor(face_id)->index() > cell->index()) continue;
skipped(c, f) == NeighborIndex(c, f) > c

\* the else branch for one face: what is looked up and what is read
face_item(c, f, ub) ==
    LET face_id_neighbor ==
            IF at_boundary(c, f) THEN ub.face ELSE neighbor_of_neighbor(f)
        phi_index == [i \in FaceDofs |-> face_dof(f, i)]
        phi_neighbor_index == [i \in FaceDofs |-> face_dof(face_id_neighbor, i)]
    IN  [cell |-> c,
         face_id |-> f,
         neighbor |-> NeighborIndex(c, f),
         face_id_neighbor |-> face_id_neighbor,
         phi_index |-> phi_index,
         phi_neighbor_index |-> phi_neighbor_index,
         phi |-> [i \in FaceDofs |-> gold_solution[phi_index[i]]],
         phi_neighbor |-> [i \in FaceDofs |-> gold_solution[phi_neighbor_index[i]]],
         \* Vector<double> normal_flux(dofs_per_face) is never assigned
         normal_flux |-> [i \in FaceDofs |-> 0]]

RECURSIVE items_from(_, _, _)
items_from(k, last, ub) ==
    IF k > last THEN <<>>
    ELSE LET c == Visit(k)[1]
             f == Visit(k)[2]
         IN  IF skipped(c, f)
             THEN items_from(k + 1, last, ub)
             ELSE <<face_item(c, f, ub)>> \o items_from(k + 1, last, ub)

\* an update that overwrites the old solution at the dofs it has read
update_stores_in_place(items) ==
    {[vector |-> "gold_solution", index |-> items[k].phi_index[i], value |-> 1] :
        k \in DOMAIN items, i \in FaceDofs}

\* the assignments to elements of g_solution and gold_solution made by the
\* body of the loops, as records [vector, index, value]: there are none
update_stores(items) == {}

\* the products accumulated into a cell's right hand side, as records
\* [cell, item, lift_face, sign, vec]: there are none
update_contributions(items) == {}

\* a vector after the given element assignments
after_stores(v, name, stores) ==
    IF stores = {} THEN v
    ELSE [d \in DOMAIN v |->
            IF \E s \in stores : s.vector = name /\ s.index = d
            THEN (CHOOSE s \in stores : s.vector = name /\ s.index = d).value
            ELSE v[d]]

update ==
    /\ ~crashed
    /\ \E ub \in UpdateOutcomes :
         LET items == items_from(1, LastTested(ub), ub)
             stores == update_stores(items)
         IN  /\ \E time_step \in 1 .. MaxTimeStep :
                   upd' = [time_step |-> time_step,
                           lookups |-> {Visit(k) : k \in 1 .. LastVisit(ub)},
                           items |-> items,
                           stores |-> stores,
                           contributions |-> update_contributions(items)]
             /\ g_solution' = after_stores(g_solution, "g_solution", stores)
             /\ gold_solution' = after_stores(gold_solution, "gold_solution", stores)
             /\ crashed' = (n_cells > 0 /\ ub.mode = "abort")
    /\ last_op' = "update"
    /\ repeat' = FALSE
    /\ UNCHANGED <<order, face_first_dof, face_dof_increment, wind, n_cells,
                   boundary_id, stiff_mats, lift_mats, l_rhs>>

(***************************************************************************)
(* advection2D::print_matrices() const                                     *)
(* stiff_mats[0] and lift_mats[0][i] are read through operator[] of        *)
(* containers of size 0: where assemble_system has stored nothing the read *)
(* may fault.                                                              *)
(***************************************************************************)
print_matrices ==
    /\ ~crashed
    /\ IF 0 \in DOMAIN stiff_mats.mem /\ ({0} \X Faces) \subseteq DOMAIN lift_mats.mem
       THEN UNCHANGED crashed
       ELSE crashed' \in BOOLEAN
    /\ last_op' = "print_matrices"
    /\ repeat' = FALSE
    /\ UNCHANGED <<order, face_first_dof, face_dof_increment, wind, n_cells,
                   g_solution, gold_solution, boundary_id, stiff_mats,
                   lift_mats, l_rhs, upd>>

(***************************************************************************)
(* advection2D::output(filename) const                                     *)
(***************************************************************************)
output ==
    /\ ~crashed
    /\ last_op' = "output"
    /\ repeat' = FALSE
    /\ UNCHANGED <<order, face_first_dof, face_dof_increment, wind, n_cells,
                   g_solution, gold_solution, boundary_id, stiff_mats,
                   lift_mats, l_rhs, crashed, upd>>

Next ==
    \/ setup_system
    \/ assemble_system
    \/ set_IC
    \/ set_boundary_ids
    \/ update
    \/ print_matrices
    \/ output

Spec == Init /\ [][Next]_vars

(***************************************************************************)
(* The update rule of the class documentation and of the algorithm         *)
(* description of update, against which the claims are stated.             *)
(***************************************************************************)
\* the boundary function selected by a boundary id
bc_value(tag, o_value) ==
    IF tag = 0 THEN b0(o_value) ELSE IF tag = 1 THEN b1(o_value) ELSE b2(o_value)

\* the upwind numerical flux for normal wind wn
upwind(wn, phi_owner, phi_neighbor) ==
    IF wn >= 0 THEN wn * phi_owner ELSE wn * phi_neighbor

\* the neighbor-side value at face dof i of face f of cell c
required_phi_neighbor(c, f, i, phi_owner) ==
    IF at_boundary(c, f)
    THEN bc_value(boundary_id[<<c, f>>], phi_owner)
    ELSE gold_solution[get_dof_indices(NeighborIndex(c, f))[face_dof(neighbor_of_neighbor(f), i)]]

\* the numerical flux on face f of cell c, seen from cell c
required_flux(c, f) ==
    [i \in FaceDofs |->
        LET phi_owner == gold_solution[get_dof_indices(c)[face_dof(f, i)]]
        IN  upwind(wind_normal(f), phi_owner, required_phi_neighbor(c, f, i, phi_owner))]

\* the products that make up the new slice of cell c
required_contributions(c) ==
    {[cell |-> c, lift_face |-> -1, sign |-> 1, scale |-> upd.time_step,
      vec |-> [k \in 0 .. (dofs_per_cell - 1) |-> gold_solution[get_dof_indices(c)[k]]]]}
    \cup
    {[cell |-> c, lift_face |-> f, sign |-> -1, scale |-> upd.time_step,
      vec |-> required_flux(c, f)] : f \in Faces}

\* the contributions that update made to cell c, without their origin
made_contributions(c) ==
    {[cell |-> x.cell, lift_face |-> x.lift_face, sign |-> x.sign,
      scale |-> x.scale, vec |-> x.vec] : x \in {y \in upd.contributions : y.cell = c}}

ItemIndices == DOMAIN upd.items
InteriorItems == {k \in ItemIndices : upd.items[k].neighbor # invalid_index}
BoundaryItems == {k \in ItemIndices : upd.items[k].neighbor = invalid_index}

(***************************************************************************)
(* Claims                                                                  *)
(***************************************************************************)

\* C1: after a call of update with time step dt, the slice of every cell in
\* the new solution is its old slice plus dt * (stiffness * old slice minus
\* the sum over its faces of lifting[face] * flux on that face), and every
\* dof of every cell of the new solution has been written.
C1_UpdateRule ==
    last_op = "update" =>
        \A c \in Cells :
            /\ \A k \in 0 .. (dofs_per_cell - 1) :
                 \E s \in upd.stores :
                    s.vector = "g_solution" /\ s.index = get_dof_indices(c)[k]
            /\ made_contributions(c) = required_contributions(c)

\* C2: in one pass of update every interior face is processed exactly once,
\* from exactly one of its two cells.
C2_InteriorFaceOnce ==
    last_op = "update" =>
        \A cf \in InteriorFaces :
            Cardinality({k \in ItemIndices :
                {upd.items[k].cell, upd.items[k].neighbor}
                    = {cf[1], NeighborIndex(cf[1], cf[2])}}) = 1

\* C3: the cell from which an interior face is processed (the owner) is the
\* lower-indexed of the two cells of the face.
C3_OwnerIsLower ==
    \A k \in InteriorItems : upd.items[k].cell < upd.items[k].neighbor

\* C4: in one pass of update every boundary face is processed exactly once,
\* as an item that carries the boundary id of the face, and no neighbor is
\* looked up on a boundary face.
C4_BoundaryFaceOnce ==
    last_op = "update" =>
        \A cf \in BoundaryFaces :
            /\ Cardinality({k \in ItemIndices :
                   upd.items[k].cell = cf[1] /\ upd.items[k].face_id = cf[2]}) = 1
            /\ cf \notin upd.lookups
            /\ \A k \in ItemIndices :
                 (upd.items[k].cell = cf[1] /\ upd.items[k].face_id = cf[2]) =>
                    /\ "boundary_tag" \in DOMAIN upd.items[k]
                    /\ upd.items[k].boundary_tag = boundary_id[cf]

\* C5: on every processed face and at every face dof the flux is
\* (wind.normal) * phi_owner when wind.normal >= 0 and
\* (wind.normal) * phi_neighbor otherwise, phi_neighbor being the boundary
\* value on a boundary face; with equal values on both sides it is
\* (wind.normal) * phi.
C5_UpwindFlux ==
    last_op = "update" =>
        \A k \in ItemIndices : \A i \in FaceDofs :
            LET it == upd.items[k]
                wn == wind_normal(it.face_id)
                phi_nb == IF it.neighbor = invalid_index
                          THEN bc_value(boundary_id[<<it.cell, it.face_id>>], it.phi[i])
                          ELSE it.phi_neighbor[i]
            IN  /\ it.normal_flux[i] = upwind(wn, it.phi[i], phi_nb)
                /\ (it.phi[i] = phi_nb => it.normal_flux[i] = wn * it.phi[i])

\* C6: for every interior face item the flux that is subtracted from the
\* owner's slice through the owner's lifting matrix is added, the same
\* value, to the neighbor's slice through the lifting matrix of the
\* neighbor's face.
C6_Conservative ==
    last_op = "update" =>
        \A k \in InteriorItems :
            LET it == upd.items[k]
            IN  \E x, y \in upd.contributions :
                    /\ x.item = <<it.cell, it.face_id>>
                    /\ y.item = <<it.cell, it.face_id>>
                    /\ x.cell = it.cell /\ x.lift_face = it.face_id /\ x.sign = -1
                    /\ y.cell = it.neighbor /\ y.lift_face = it.face_id_neighbor
                    /\ y.sign = 1
                    /\ x.vec = y.vec

\* C7: on every processed interior face phi_owner is read at the owner's
\* global dof index of the face dof and phi_neighbor at the neighbor's
\* global dof index of the corresponding face dof.
C7_GlobalDofIndex ==
    \A k \in InteriorItems : \A i \in FaceDofs :
        LET it == upd.items[k]
        IN  /\ it.phi_index[i] = get_dof_indices(it.cell)[face_dof(it.face_id, i)]
            /\ it.phi_neighbor_index[i] =
                 get_dof_indices(it.neighbor)[face_dof(it.face_id_neighbor, i)]

\* C8: for every face the face index map i -> first_dof + i * increment is
\* injective on 0..order with images in 0 .. (order+1)^2 - 1, for the
\* tables the constructor sets; for order 2 face 1 maps to the cell dofs
\* 2, 5, 8.
C8_FaceMapInjective ==
    /\ \A f \in Faces :
         /\ \A i \in FaceDofs : face_dof(f, i) \in 0 .. ((order + 1) * (order + 1) - 1)
         /\ \A i, j \in FaceDofs : i # j => face_dof(f, i) # face_dof(f, j)
    /\ (order = 2 => <<face_dof(1, 0), face_dof(1, 1), face_dof(1, 2)>> = <<2, 5, 8>>)

\* an update has read the dofs 2, 5, 8 of face 1 with order 2
C8_Witness ==
    /\ order = 2
    /\ \E k \in ItemIndices :
         /\ upd.items[k].face_id = 1
         /\ upd.items[k].phi_index = (0 :> 2 @@ 1 :> 5 @@ 2 :> 8)

\* C9: a call of update leaves the old solution as it was at the start of
\* the call, and stores new values into the current solution only.
C9_OldSolutionUnchanged ==
    [][last_op' = "update" =>
          /\ gold_solution' = gold_solution
          /\ \A s \in upd'.stores : s.vector = "g_solution"]_vars

\* an update has run over the faces and read the old solution
C9_Witness ==
    /\ last_op = "update"
    /\ ~crashed
    /\ ItemIndices # {}

\* C10: on every boundary face item the neighbor-side value is the boundary
\* function of the face's boundary id applied to the owner-side value, and
\* the item contributes to the owner's slice only.
C10_BoundaryValue ==
    last_op = "update" =>
        \A k \in BoundaryItems :
            LET it == upd.items[k]
            IN  /\ \A i \in FaceDofs :
                     it.phi_neighbor[i] =
                        bc_value(boundary_id[<<it.cell, it.face_id>>], it.phi[i])
                /\ \A x \in upd.contributions :
                     x.item = <<it.cell, it.face_id>> => x.cell = it.cell

\* the operators of every cell of the mesh are stored
OperatorsBuilt ==
    /\ n_cells > 0
    /\ DOMAIN stiff_mats.mem = Cells
    /\ DOMAIN lift_mats.mem = Cells \X Faces

\* C11: update runs only after setup_system and assemble_system have built
\* the operators of the current mesh; a call in any other state does not
\* happen or is rejected.
C11_StepNeedsOperators ==
    last_op = "update" => OperatorsBuilt

C14_RebuildIdempotent ==
    [][(last_op = "assemble_system" /\ last_op' = "assemble_system" /\ ~crashed') =>
          /\ stiff_mats' = stiff_mats
          /\ lift_mats' = lift_mats]_vars

\* the operators have been built twice in a row
C14_Witness ==
    /\ last_op = "assemble_system"
    /\ repeat
    /\ ~crashed
    /\ OperatorsBuilt

\* C15: after set_boundary_ids every boundary face with centre x = 0 has
\* boundary id 0, every boundary face with centre y = 0 has id 1 and every
\* other boundary face has id 2; interior faces carry no id.
C15_BoundaryIds ==
    last_op = "set_boundary_ids" =>
        /\ DOMAIN boundary_id = BoundaryFaces
        /\ \A cf \in BoundaryFaces :
             boundary_id[cf] =
                IF face_center(cf[1], cf[2])[1] = 0 THEN 0
                ELSE IF face_center(cf[1], cf[2])[2] = 0 THEN 1 ELSE 2

\* C16: once setup_system has run, stiff_mats, lift_mats and l_rhs have
\* n_active_cells elements each, so that the accesses stiff_mats[index] and
\* lift_mats[index][face_id] lie within the size of the container; after
\* assemble_system every cell has its stiffness matrix and its 4 lifting
\* matrices stored at its index.
C16_ContainersSized ==
    n_cells > 0 =>
        /\ stiff_mats.size = n_cells
        /\ lift_mats.size = n_cells
        /\ l_rhs.size = n_cells
        /\ \A s \in DOMAIN stiff_mats.mem : s < stiff_mats.size
        /\ \A sf \in DOMAIN lift_mats.mem : sf[1] < lift_mats.size
        /\ ((last_op = "assemble_system" /\ ~crashed) => OperatorsBuilt)

\* the cell-local dofs on face f
dofs_on_face(f) == {face_dof(f, k) : k \in FaceDofs}

\* C17: the flux matrix behind lifting[f] of a cell has contributions of
\* face f of that cell only: no entry outside the rows and columns of the
\* dofs on face f, and nothing left from a face or cell processed before.
C17_FluxOnlyOwnFace ==
    \A sf \in DOMAIN lift_mats.mem :
        \A e \in lift_mats.mem[sf].flux :
            /\ e[3] = sf
            /\ e[1] \in dofs_on_face(sf[2])
            /\ e[2] \in dofs_on_face(sf[2])

\* the lifting matrices of a face and a cell that are not the first ones
\* processed are stored
C17_Witness ==
    /\ n_cells > 1
    /\ <<1, 1>> \in DOMAIN lift_mats.mem
    /\ lift_mats.mem[<<1, 1>>].flux # {}

\* C18: on every processed interior face the neighbor's face is the
\* opposite one (0 <-> 1, 2 <-> 3) and, for every i, the i-th dof of the
\* owner's face and the i-th dof of the neighbor's face sit at the same
\* point of the shared face.
C18_FaceDofsPaired ==
    \A k \in InteriorItems : \A i \in FaceDofs :
        LET it == upd.items[k]
        IN  /\ {it.face_id, it.face_id_neighbor} \in {{0, 1}, {2, 3}}
            /\ dof_point(it.cell, face_dof(it.face_id, i))
                 = dof_point(it.neighbor, face_dof(it.face_id_neighbor, i))

\* an update has processed an interior face in each direction
C18_Witness ==
    /\ \E k \in InteriorItems : upd.items[k].face_id = 0
    /\ \E k \in InteriorItems : upd.items[k].face_id = 2

====
